---- MODULE Spec2Model ----
(***************************************************************************)
(* Model of packages/monaco/src/worker.ts: the language-service proxy      *)
(* built by createLanguageService (re-execution on declaration-version     *)
(* change, deferred disposal) and the CdnDtsHost declaration cache         *)
(* (readFile / fetchFile / getVersion).                                    *)
(*                                                                         *)
(* JavaScript strings are sequences of one-character strings, so that      *)
(* startsWith / endsWith / split / slice / replace are computed as the     *)
(* code computes them.  Every `await` is a suspension point: the code      *)
(* between two awaits is one action.                                       *)
(***************************************************************************)
EXTENDS Integers, Sequences, FiniteSets, TLC

\* ------------------------------------------------------------------------
\* String primitives (String.prototype.*)
\* ------------------------------------------------------------------------
startsWith(s, p) == Len(s) >= Len(p) /\ SubSeq(s, 1, Len(p)) = p

endsWith(s, p) == Len(s) >= Len(p) /\ SubSeq(s, Len(s) - Len(p) + 1, Len(s)) = p

\* s.slice(n), n >= 0
slice(s, n) == SubSeq(s, n + 1, Len(s))

\* s.indexOf(p): 0-based index of the first occurrence, or -1
indexOf(s, p) ==
    LET hits == { i \in 1..(Len(s) - Len(p) + 1) : SubSeq(s, i, i + Len(p) - 1) = p }
    IN  IF hits = {} THEN -1
        ELSE (CHOOSE i \in hits : \A j \in hits : i <= j) - 1

\* s.replace(p, r) with a string pattern: only the first occurrence
replace(s, p, r) ==
    LET i == indexOf(s, p)
    IN  IF i < 0 THEN s
        ELSE SubSeq(s, 1, i) \o r \o SubSeq(s, i + Len(p) + 1, Len(s))

RECURSIVE split(_)
\* s.split('/')
split(s) ==
    LET i == indexOf(s, <<"/">>)
    IN  IF i < 0 THEN <<s>>
        ELSE <<SubSeq(s, 1, i)>> \o split(slice(s, i + 1))

Undefined == <<"u","n","d","e","f","i","n","e","d">>

\* s.split('/')[i] (0-based) as it is used in a string concatenation or a
\* method call: a missing element is the value undefined
segment(s, i) ==
    LET parts == split(s)
    IN  IF i + 1 <= Len(parts) THEN parts[i + 1] ELSE Undefined

\* ------------------------------------------------------------------------
\* String literals of the source
\* ------------------------------------------------------------------------
NodeModules == <<"/","n","o","d","e","_","m","o","d","u","l","e","s","/">>
SlashNodeModules == <<"/","n","o","d","e","_","m","o","d","u","l","e","s">>
DotDts == <<".","d",".","t","s">>
IndexDts == <<"/","i","n","d","e","x",".","d",".","t","s">>
PackageJson == <<"/","p","a","c","k","a","g","e",".","j","s","o","n">>
AtTypes == <<"@","t","y","p","e","s","/">>
AtTypescript == <<"@","t","y","p","e","s","c","r","i","p","t","/">>
AtTypesTypescript == <<"@","t","y","p","e","s","/","t","y","p","e","s","c","r","i","p","t","_","_">>
UnderUnder == <<"_","_">>

\* ------------------------------------------------------------------------
\* Bounds and the universe of inputs
\* ------------------------------------------------------------------------
\* number of proxied calls issued over a behaviour
MaxCalls == 2

\* the history of a getVersion invocation counts its awaits up to this many
MaxRounds == 3

\* base URL of the byte fetches (cdn)
Cdn == <<"c","d","n",":","/">>

\* /node_modules/@types/f/index.d.ts : a file of the types shim of package f
ShimIndex == NodeModules \o AtTypes \o <<"f">> \o IndexDts
\* /node_modules/f/package.json : the manifest of the original package
OrigManifest == NodeModules \o <<"f">> \o PackageJson
\* /node_modules/f/index.d.ts : the conventional declaration file of f
OrigIndex == NodeModules \o <<"f">> \o IndexDts
\* /node_modules/f/index.js : not a declaration file, refused by readFile
OrigJs == NodeModules \o <<"f">> \o <<"/","i","n","d","e","x",".","j","s">>

\* the file names the engine asks its host for under Spec
EnginePaths == { ShimIndex }

\* the file names the engine asks its host for under SpecHost
HostPaths == { ShimIndex, OrigManifest, OrigIndex, OrigJs }

\* /node_modules/@typescript/x/index.d.ts and
\* /node_modules/@types/typescript__x/index.d.ts : files of known-invalid packages
InvalidScope == NodeModules \o AtTypescript \o <<"x">> \o IndexDts
InvalidShim == NodeModules \o AtTypesTypescript \o <<"x">> \o IndexDts
\* /node_modules/fx/index.d.ts : a package whose name starts with a pinned name
FxIndex == NodeModules \o <<"f","x">> \o IndexDts

\* the file names the engine asks its host for under SpecInvalid
InvalidPaths == { ShimIndex, InvalidScope, InvalidShim }

\* the file names the engine asks its host for under SpecPins
PinPaths == { ShimIndex, FxIndex }

\* the version pins of the host under Spec: { "f": "1" }
PinF == << << <<"f">>, <<"1">> >> >>

\* the version-pin maps a host may be constructed with, as Object.entries
\* lists them
VersionPins == { <<>>, PinF }

\* what a file listing (flat) may answer for a package
FlatListings == SUBSET { IndexDts, PackageJson }

\* text bodies: a manifest declaring types/typings, a manifest without them,
\* a body JSON.parse throws on, a declaration file
ManifestTexts == { "Types", "Plain", "Bad" }
bodiesOf(fileName) == IF endsWith(fileName, PackageJson) THEN ManifestTexts ELSE { "Dts" }

\* what fetchText may resolve to
Bodies == ManifestTexts \cup { "Dts", "undefined" }

EngineErrors == { "EngineError" }

Calls == 1..MaxCalls

\* under SpecHost the host is driven by one proxied call
HostCalls == { 1 }

VARIABLES
    hasDtsHost,          \* options.dtsHost is supplied
    hasFlat,             \* CdnDtsHost.flat is supplied
    hasOnFetch,          \* CdnDtsHost.onFetch is supplied
    onFetchCalls,        \* history: invocations of onFetch, per <<fileName, text>>
    versions,            \* CdnDtsHost.versions
    files,               \* CdnDtsHost.files : fileName -> promise state
    fetchPc,             \* where each fetchFile(fileName) is suspended
    flatResult,          \* CdnDtsHost.flatResult : pkgName -> promise state
    lastUpdateFilesSize, \* CdnDtsHost.lastUpdateFilesSize
    flatCalls,           \* history: invocations of flat, per argument pair
    fetchStarts,         \* history: invocations of fetchFile, per fileName
    readCalls,           \* history: readFile calls the host accepted, per fileName
    requests,            \* history: fetchText invocations, per url
    dtsFiles,            \* worker dtsFiles : fileName -> text | undefined
    dtsAwait,            \* readDtsFileAsync continuations not yet run
    instances,           \* every language service constructed so far
    languageService,     \* the current one (index into instances)
    toClear,             \* superseded instances awaiting dispose()
    dtsVersion,
    runningApis,
    pc,                  \* position of each proxied call
    gv,                  \* the getVersion invocation a call is awaiting
    oldVersion,
    opInst,              \* the instance the call's running op was invoked on
    result,              \* the call's local `result`
    err,                 \* the error the call rejected with
    hist,                \* per call: history used to state the properties
    versionLog           \* history: what getVersion returned, and over which cache

hostVars == << hasFlat, hasOnFetch, onFetchCalls, versions, files, fetchPc, flatResult, lastUpdateFilesSize,
               flatCalls, fetchStarts, readCalls, requests >>
workerVars == << hasDtsHost, dtsFiles, dtsAwait, instances, languageService, toClear,
                 dtsVersion, runningApis, pc, gv, oldVersion, opInst, result, err, hist >>
vars == << hostVars, workerVars, versionLog >>

\* ------------------------------------------------------------------------
\* Maps
\* ------------------------------------------------------------------------
put(m, k, v) == [ x \in DOMAIN m \cup {k} |-> IF x = k THEN v ELSE m[x] ]

bump(m, k) == IF k \in DOMAIN m THEN [ m EXCEPT ![k] = @ + 1 ] ELSE put(m, k, 1)

countOf(m, k) == IF k \in DOMAIN m THEN m[k] ELSE 0

Empty == [ x \in {} |-> 0 ]

\* ------------------------------------------------------------------------
\* CdnDtsHost: pure parts
\* ------------------------------------------------------------------------
\* the guard of readFile
accepted(fileName) ==
    /\ startsWith(fileName, NodeModules)
    /\ (endsWith(fileName, DotDts) \/ endsWith(fileName, PackageJson))

\* fetchFile: the owning package of a file name
pkgNameOf(fileName) ==
    LET first == segment(fileName, 2)
    IN  IF startsWith(first, <<"@">>)
        THEN first \o <<"/">> \o segment(fileName, 3)
        ELSE first

\* fetchFile: the package a types shim stands for
originalPkgNameOf(pkgName) ==
    LET plain == slice(pkgName, Len(AtTypes))
    IN  IF indexOf(plain, UnderUnder) >= 0
        THEN <<"@">> \o replace(plain, UnderUnder, <<"/">>)
        ELSE plain

\* this.versions[pkgName]
versionOf(vs, pkgName) ==
    LET hits == { i \in 1..Len(vs) : vs[i][1] = pkgName }
    IN  IF hits = {} THEN Undefined ELSE vs[CHOOSE i \in hits : TRUE][2]

RECURSIVE resolveFromPrefix(_, _, _)
\* resolveRequestFileName matching `/node_modules/${key}` without the closing slash
resolveFromPrefix(vs, i, fileName) ==
    IF i > Len(vs) THEN fileName
    ELSE LET prefix == NodeModules \o vs[i][1]
         IN  IF startsWith(fileName, prefix)
             THEN replace(fileName, prefix, NodeModules \o vs[i][1] \o <<"@">> \o vs[i][2])
             ELSE resolveFromPrefix(vs, i + 1, fileName)

RECURSIVE resolveFrom(_, _, _)
\* the loop of resolveRequestFileName over Object.entries(this.versions), from entry i
resolveFrom(vs, i, fileName) ==
    IF i > Len(vs) THEN fileName
    ELSE LET prefix == NodeModules \o vs[i][1] \o <<"/">>
         IN  IF startsWith(fileName, prefix)
             THEN replace(fileName, prefix, NodeModules \o vs[i][1] \o <<"@">> \o vs[i][2] \o <<"/">>)
             ELSE resolveFrom(vs, i + 1, fileName)

resolveRequestFileName(vs, fileName) == resolveFrom(vs, 1, fileName)

\* the url fetchFile hands to fetchText
urlOf(vs, fileName) == Cdn \o slice(resolveRequestFileName(vs, fileName), Len(NodeModules))

\* the exclusion list without its @types mirror
knownInvalidScopeOnly(pkgName) == startsWith(pkgName, AtTypescript)

\* pkgName.startsWith('@typescript/') || pkgName.startsWith('@types/typescript__')
knownInvalid(pkgName) ==
    startsWith(pkgName, AtTypescript) \/ startsWith(pkgName, AtTypesTypescript)

\* JSON.parse(packageJson) throws
parseThrows(text) == text = "Bad"

\* the redundancy test looking at a field no manifest has
declaresTypesNever(text) == FALSE

\* packageJsonObj.types || packageJsonObj.typings
declaresTypes(text) == text = "Types"

\* a settled promise value that is truthy
truthy(v) == v \notin { "undefined", "Pending", "Rejected" }

settled(v) == v # "Pending"

manifestOf(pkgName) == NodeModules \o originalPkgNameOf(pkgName) \o PackageJson

indexOfOriginal(pkgName) == NodeModules \o originalPkgNameOf(pkgName) \o IndexDts

\* file.slice(`/node_modules/${pkgName}`.length)
relativeTo(fileName, pkgName) == slice(fileName, Len(NodeModules \o pkgName))

\* Every file name a behaviour can meet, and what the pure functions above
\* give for each of them, computed once
Universe ==
    LET asked == EnginePaths \cup HostPaths \cup InvalidPaths \cup PinPaths
    IN  asked \cup { manifestOf(pkgNameOf(f)) : f \in asked }
              \cup { indexOfOriginal(pkgNameOf(f)) : f \in asked }

\* the package names of those files
Packages == { pkgNameOf(f) : f \in Universe }

Known ==
    [ f \in Universe |->
        [ accepted |-> accepted(f),
          pkgName |-> pkgNameOf(f),
          manifest |-> manifestOf(pkgNameOf(f)),
          index |-> indexOfOriginal(pkgNameOf(f)),
          relative |-> relativeTo(f, pkgNameOf(f)),
          url |-> [ vs \in VersionPins |-> urlOf(vs, f) ],
          version |-> [ vs \in VersionPins |-> versionOf(vs, pkgNameOf(f)) ] ] ]

\* ------------------------------------------------------------------------
\* CdnDtsHost: readFile and fetchFile on a host state h
\* ------------------------------------------------------------------------
H == [ files |-> files, fetchPc |-> fetchPc, flatResult |-> flatResult,
       flatCalls |-> flatCalls, fetchStarts |-> fetchStarts, readCalls |-> readCalls,
       requests |-> requests ]

setHost(h) ==
    /\ files' = h.files
    /\ fetchPc' = h.fetchPc
    /\ flatResult' = h.flatResult
    /\ flatCalls' = h.flatCalls
    /\ fetchStarts' = h.fetchStarts
    /\ readCalls' = h.readCalls
    /\ requests' = h.requests

\* the promise of fetchFile(fileName) is fulfilled or rejected with v
settle(h, fileName, v) ==
    [ h EXCEPT !.files = put(@, fileName, v), !.fetchPc = put(@, fileName, "end") ]

\* fetchFile(fileName) suspends at the await named by at
suspend(h, fileName, at) ==
    [ h EXCEPT !.files = put(@, fileName, "Pending"), !.fetchPc = put(@, fileName, at) ]

\* readFile without the has() test: every read starts a fetch
mustFetchAlways(fs, fileName) == TRUE

\* readFile: !this.files.has(fileName)
mustFetch(fs, fileName) == fileName \notin DOMAIN fs

\* fetchFile without the flatResult lookup: every file asks for the listing
mustCallFlatAlways(fr, pkgName) == TRUE

\* fetchFile: !this.flatResult.has(pkgName)
mustCallFlat(fr, pkgName) == pkgName \notin DOMAIN fr

\* the promise flat returned, before the listing has arrived
PendingListing == [ settled |-> FALSE, names |-> {} ]

\* fetchFile, from the url to the await of fetchText
requestStage(h, vs, fileName) ==
    suspend([ h EXCEPT !.requests = bump(@, Known[fileName].url[vs]) ], fileName, "fetchText")

\* fetchFile, from the flatResult lookup to the await of the listing
flatStage(h, vs, fileName) ==
    LET pkgName == Known[fileName].pkgName
        h1 == IF mustCallFlat(h.flatResult, pkgName)
              THEN [ h EXCEPT !.flatResult = put(@, pkgName, PendingListing),
                              !.flatCalls = bump(@, <<pkgName, Known[fileName].version[vs]>>) ]
              ELSE h
    IN  suspend(h1, fileName, "flat")

RECURSIVE fetchFile(_, _, _, _)
RECURSIVE readFile(_, _, _, _)

\* fetchFile up to its first await (or to its return)
fetchFile(h, vs, flat, fileName) ==
    IF flat
    THEN LET pkgName == Known[fileName].pkgName
         IN  IF endsWith(pkgName, DotDts) \/ endsWith(pkgName, SlashNodeModules)
             THEN settle(h, fileName, "undefined")
             ELSE IF knownInvalid(pkgName)
             THEN settle(h, fileName, "undefined")
             ELSE IF startsWith(pkgName, AtTypes)
             THEN suspend(readFile(h, vs, flat, Known[fileName].manifest), fileName, "packageJson")
             ELSE flatStage(h, vs, fileName)
    ELSE requestStage(h, vs, fileName)

readFile(h, vs, flat, fileName) ==
    IF Known[fileName].accepted
    THEN LET h1 == [ h EXCEPT !.readCalls = bump(@, fileName) ]
         IN  IF mustFetch(h.files, fileName)
             THEN fetchFile([ h1 EXCEPT !.fetchStarts = bump(@, fileName) ], vs, flat, fileName)
             ELSE h1
    ELSE h

\* ------------------------------------------------------------------------
\* The event loop
\* ------------------------------------------------------------------------
\* A continuation whose awaited promise is settled is a job of the microtask
\* queue; the arrival of a call, the progress of the engine's operation and
\* the answers of the network are tasks, and a task runs only once the
\* microtask queue is empty.  The jobs that are ready run in any order.
readyPackageJson(fileName) ==
    /\ fileName \in DOMAIN fetchPc /\ fetchPc[fileName] = "packageJson"
    /\ settled(files[Known[fileName].manifest])

readyIndexDts(fileName) ==
    /\ fileName \in DOMAIN fetchPc /\ fetchPc[fileName] = "indexDts"
    /\ settled(files[Known[fileName].index])

readyFlat(fileName) ==
    /\ fileName \in DOMAIN fetchPc /\ fetchPc[fileName] = "flat"
    /\ flatResult[Known[fileName].pkgName].settled

readyAll(c) ==
    /\ gv[c].st = "all"
    /\ \/ \E f \in gv[c].all : files[f] = "Rejected"
       \/ \A f \in gv[c].all : settled(files[f])

readyVersion(c) == pc[c] \in { "oldVersion", "newVersion" } /\ gv[c].st \in { "ret", "thrown" }

readyDtsFile(fileName) ==
    /\ fileName \in dtsAwait
    /\ Known[fileName].accepted => settled(files[fileName])

MicrotasksPending ==
    \/ \E f \in DOMAIN fetchPc : readyPackageJson(f) \/ readyIndexDts(f) \/ readyFlat(f)
    \/ \E c \in Calls : readyAll(c) \/ readyVersion(c)
    \/ \E f \in dtsAwait : readyDtsFile(f)

\* ------------------------------------------------------------------------
\* CdnDtsHost: the continuations of fetchFile
\* ------------------------------------------------------------------------
\* after `await this.readFile(.../package.json)`
AfterPackageJson(fileName) ==
    /\ readyPackageJson(fileName)
    /\ LET packageJson == files[Known[fileName].manifest]
       IN  /\ setHost( IF packageJson = "Rejected" THEN settle(H, fileName, "Rejected")
                       ELSE IF truthy(packageJson)
                       THEN IF parseThrows(packageJson) THEN settle(H, fileName, "Rejected")
                            ELSE IF declaresTypes(packageJson) THEN settle(H, fileName, "undefined")
                            ELSE suspend(readFile(H, versions, hasFlat, Known[fileName].index),
                                         fileName, "indexDts")
                       ELSE flatStage(H, versions, fileName) )
    /\ UNCHANGED << hasFlat, hasOnFetch, onFetchCalls, versions, lastUpdateFilesSize, workerVars >>
    /\ UNCHANGED versionLog

\* after `await this.readFile(.../index.d.ts)`
AfterIndexDts(fileName) ==
    /\ readyIndexDts(fileName)
    /\ LET indexDts == files[Known[fileName].index]
       IN  /\ setHost( IF indexDts = "Rejected" THEN settle(H, fileName, "Rejected")
                       ELSE IF truthy(indexDts) THEN settle(H, fileName, "undefined")
                       ELSE flatStage(H, versions, fileName) )
    /\ UNCHANGED << hasFlat, hasOnFetch, onFetchCalls, versions, lastUpdateFilesSize, workerVars >>
    /\ UNCHANGED versionLog

\* the file listing of a package arrives (flat's promise is fulfilled)
FlatSettle(pkgName, listing) ==
    /\ pkgName \in DOMAIN flatResult /\ ~flatResult[pkgName].settled
    /\ ~MicrotasksPending
    /\ flatResult' = [ flatResult EXCEPT ![pkgName] = [ settled |-> TRUE, names |-> listing ] ]
    /\ UNCHANGED << hasFlat, hasOnFetch, onFetchCalls, versions, files, fetchPc, lastUpdateFilesSize, flatCalls,
                    fetchStarts, readCalls, requests, workerVars >>
    /\ UNCHANGED versionLog

\* after `await this.flatResult.get(pkgName)`
AfterFlat(fileName) ==
    /\ readyFlat(fileName)
    /\ LET flat == flatResult[Known[fileName].pkgName]
           include == Known[fileName].relative \in flat.names
       IN  /\ setHost( IF ~include THEN settle(H, fileName, "undefined")
                       ELSE requestStage(H, versions, fileName) )
    /\ UNCHANGED << hasFlat, hasOnFetch, onFetchCalls, versions, lastUpdateFilesSize, workerVars >>
    /\ UNCHANGED versionLog

\* after `await fetchText(url)`: a body, or undefined on any failure
AfterFetchText(fileName, text) ==
    /\ fileName \in DOMAIN fetchPc /\ fetchPc[fileName] = "fetchText"
    /\ text \in bodiesOf(fileName) \cup { "undefined" }
    /\ ~MicrotasksPending
    /\ setHost(settle(H, fileName, text))
    /\ UNCHANGED << hasFlat, hasOnFetch, onFetchCalls, versions, lastUpdateFilesSize, workerVars >>
    /\ UNCHANGED versionLog

\* ------------------------------------------------------------------------
\* CdnDtsHost.getVersion
\* ------------------------------------------------------------------------
size(fs) == Cardinality(DOMAIN fs)

NoGv == [ st |-> "none", all |-> {}, newFileSize |-> 0, v |-> 0, rounds |-> 0 ]

\* Promise.all handed nothing to wait for
valuesOfNothing(fs) == {}

\* the promises handed to Promise.all: this.files.values()
valuesOf(fs) == DOMAIN fs

\* getVersion answering 0 when its loop body did not run (the size taken
\* inside the loop is returned instead of this.files.size)
getVersionLoopSnapshotSize(fs, last, rounds) ==
    IF size(fs) # last
    THEN [ st |-> "all", all |-> valuesOf(fs), newFileSize |-> size(fs), v |-> 0,
           rounds |-> rounds ]
    ELSE [ st |-> "ret", all |-> {}, newFileSize |-> 0,
           v |-> IF rounds = 0 THEN 0 ELSE size(fs), rounds |-> rounds ]

\* getVersion answering the number of entries that resolved to a text
getVersionLoopResolvedCount(fs, last, rounds) ==
    IF size(fs) # last
    THEN [ st |-> "all", all |-> valuesOf(fs), newFileSize |-> size(fs), v |-> 0,
           rounds |-> rounds ]
    ELSE [ st |-> "ret", all |-> {}, newFileSize |-> 0,
           v |-> Cardinality({ f \in DOMAIN fs : truthy(fs[f]) }), rounds |-> rounds ]

\* the loop test and what follows it, up to the await or the return
\* (rounds counts the awaits this invocation has been through)
getVersionLoop(fs, last, rounds) ==
    IF size(fs) # last
    THEN [ st |-> "all", all |-> valuesOf(fs), newFileSize |-> size(fs), v |-> 0,
           rounds |-> rounds ]
    ELSE [ st |-> "ret", all |-> {}, newFileSize |-> 0, v |-> size(fs), rounds |-> rounds ]

\* lastUpdateFilesSize is never advanced
updatedSizeNever(newFileSize, last) == last

\* if (newFileSize > this.lastUpdateFilesSize) this.lastUpdateFilesSize = newFileSize
updatedSize(newFileSize, last) == IF newFileSize > last THEN newFileSize ELSE last

\* the entries of the cache that are no longer pending
Terminal == { f \in DOMAIN files : settled(files[f]) }

\* history: the getVersion invocation g returned (if it did), the cache being fs
NoLog == [ seen |-> Empty, again |-> {} ]

logReturn(log, g, fs) ==
    IF g.st # "ret" THEN log
    ELSE IF g.v \in DOMAIN log.seen
    THEN [ seen |-> [ log.seen EXCEPT ![g.v] = @ \cup { fs } ], again |-> log.again \cup { g.v } ]
    ELSE [ seen |-> put(log.seen, g.v, { fs }), again |-> log.again ]

nextRound(rounds) == IF rounds < MaxRounds THEN rounds + 1 ELSE rounds

\* after `await Promise.all(this.files.values())` in the getVersion call c awaits:
\* Promise.all rejects as soon as one promise is rejected, and is fulfilled
\* once all are
GetVersionResume(c) ==
    /\ readyAll(c)
    /\ IF \E f \in gv[c].all : files[f] = "Rejected"
       THEN /\ gv' = [ gv EXCEPT ![c] = [ NoGv EXCEPT !.st = "thrown" ] ]
            /\ UNCHANGED << lastUpdateFilesSize, versionLog >>
       ELSE /\ LET last == updatedSize(gv[c].newFileSize, lastUpdateFilesSize)
               IN  /\ lastUpdateFilesSize' = last
                   /\ gv' = [ gv EXCEPT ![c] = getVersionLoop(files, last, nextRound(gv[c].rounds)) ]
                   /\ versionLog' = logReturn(versionLog, gv'[c], files)
    /\ UNCHANGED << hasFlat, hasOnFetch, onFetchCalls, versions, files, fetchPc, flatResult, flatCalls, fetchStarts,
                    readCalls, requests, hasDtsHost, dtsFiles, dtsAwait, instances, languageService,
                    toClear, dtsVersion, runningApis, pc, oldVersion, opInst, result, err, hist >>

\* ------------------------------------------------------------------------
\* createLanguageService: readDtsFile / readDtsFileAsync
\* ------------------------------------------------------------------------
\* readDtsFile(fileName), called by the engine through its host
ReadDtsFile(fileName) ==
    IF fileName \notin DOMAIN dtsFiles /\ hasDtsHost
    THEN /\ dtsFiles' = put(dtsFiles, fileName, "undefined")
         /\ dtsAwait' = dtsAwait \cup { fileName }
         /\ setHost(readFile(H, versions, hasFlat, fileName))
    ELSE UNCHANGED << dtsFiles, dtsAwait, files, fetchPc, flatResult, flatCalls,
                      fetchStarts, readCalls, requests >>

\* readDtsFileAsync after `await options.dtsHost?.readFile(fileName)`; a
\* rejected promise makes the floating readDtsFileAsync promise reject and
\* leaves dtsFiles alone
ReadDtsFileAsyncResume(fileName) ==
    /\ readyDtsFile(fileName)
    /\ dtsAwait' = dtsAwait \ { fileName }
    /\ dtsFiles' = IF Known[fileName].accepted /\ files[fileName] # "Rejected"
                   THEN put(dtsFiles, fileName, files[fileName])
                   ELSE dtsFiles
    /\ UNCHANGED << hostVars, hasDtsHost, instances, languageService, toClear, dtsVersion,
                    runningApis, pc, gv, oldVersion, opInst, result, err, hist >>
    /\ UNCHANGED versionLog

\* ------------------------------------------------------------------------
\* createLanguageService: the proxied operations
\* ------------------------------------------------------------------------
NoResult == [ inst |-> 0, exec |-> 0 ]

NoHist == [ began |-> {}, ended |-> {}, execs |-> 0, incs |-> 0, decs |-> 0, lastRead |-> -1,
            thrown |-> "none", floor |-> -1, readBefore |-> -1 ]

\* _createLanguageService(...): the new instance is bound to what the
\* cache holds now
newInstance == [ seen |-> Terminal, disposals |-> <<>> ]

\* the disposal test without the runningApis === 0 conjunct
mustDisposeWhileRunning(running, clearSet) == clearSet # {}

\* runningApis === 0 && toClear.size > 0
mustDispose(running, clearSet) == running = 0 /\ clearSet # {}

\* the loop is left after the first execution whatever the second read says
mustReexecuteNever(newVersion, old) == FALSE

\* while (newVersion !== oldVersion)
mustReexecute(newVersion, old) == newVersion # old

\* the engine is rebuilt in every iteration
mustRebuildAlways(newVersion, builtFor) == TRUE

\* if (newVersion !== dtsVersion)
mustRebuild(newVersion, builtFor) == newVersion # builtFor

\* toClear.add(languageService) after the replacement has been assigned
supersededAfterSwap(current, replacement) == replacement

\* toClear.add(languageService), before languageService is reassigned
superseded(current, replacement) == current

\* the finally block left out of the normal path
finallyOnReturnSkipped(running) == running

\* runningApis-- at the end of the try block instead of in finally
finallyOnThrowSkipped(running) == running

\* the finally block, on the path of a thrown error
finallyOnThrow(running) == running - 1

\* the finally block, on the normal path
finallyOnReturn(running) == running - 1

\* history: the greatest version last read by a call that has settled
settledFloor ==
    LET reads == { hist[d].lastRead : d \in { d \in Calls : pc[d] \in { "done", "failed" } } } \cup { -1 }
    IN  CHOOSE m \in reads : \A n \in reads : n <= m

\* the call begins: the guard, runningApis++ and the first getVersion call
Start(c) ==
    /\ pc[c] = "idle"
    /\ \A d \in 1..(c - 1) : pc[d] # "idle"
    /\ ~MicrotasksPending
    /\ IF ~hasDtsHost
       THEN /\ pc' = [ pc EXCEPT ![c] = "op" ]
            /\ opInst' = [ opInst EXCEPT ![c] = languageService ]
            /\ hist' = [ hist EXCEPT ![c].execs = 1, ![c].floor = settledFloor ]
            /\ UNCHANGED << runningApis, gv, versionLog >>
       ELSE /\ runningApis' = runningApis + 1
            /\ gv' = [ gv EXCEPT ![c] = getVersionLoop(files, lastUpdateFilesSize, 0) ]
            /\ versionLog' = logReturn(versionLog, gv'[c], files)
            /\ pc' = [ pc EXCEPT ![c] = "oldVersion" ]
            /\ hist' = [ hist EXCEPT ![c].began = Terminal, ![c].incs = @ + 1,
                                     ![c].floor = settledFloor ]
            /\ UNCHANGED opInst
    /\ UNCHANGED << hostVars, hasDtsHost, dtsFiles, dtsAwait, instances, languageService,
                    toClear, dtsVersion, oldVersion, result, err >>

\* `oldVersion = await getVersion()` resumes and the operation is invoked
GotOldVersion(c) ==
    /\ pc[c] = "oldVersion" /\ gv[c].st = "ret"
    /\ oldVersion' = [ oldVersion EXCEPT ![c] = gv[c].v ]
    /\ gv' = [ gv EXCEPT ![c] = NoGv ]
    /\ pc' = [ pc EXCEPT ![c] = "op" ]
    /\ opInst' = [ opInst EXCEPT ![c] = languageService ]
    /\ hist' = [ hist EXCEPT ![c].execs = @ + 1, ![c].lastRead = gv[c].v,
                             ![c].readBefore = gv[c].v ]
    /\ UNCHANGED << hostVars, hasDtsHost, dtsFiles, dtsAwait, instances, languageService,
                    toClear, dtsVersion, runningApis, result, err >>
    /\ UNCHANGED versionLog

\* an awaited getVersion() rejected: the finally block runs, the error leaves
GetVersionRejected(c) ==
    /\ pc[c] \in { "oldVersion", "newVersion" } /\ gv[c].st = "thrown"
    /\ runningApis' = finallyOnThrow(runningApis)
    /\ gv' = [ gv EXCEPT ![c] = NoGv ]
    /\ pc' = [ pc EXCEPT ![c] = "failed" ]
    /\ err' = [ err EXCEPT ![c] = "SyntaxError" ]
    /\ hist' = [ hist EXCEPT ![c].decs = @ + (runningApis - runningApis') ]
    /\ UNCHANGED << hostVars, hasDtsHost, dtsFiles, dtsAwait, instances, languageService,
                    toClear, dtsVersion, oldVersion, opInst, result >>
    /\ UNCHANGED versionLog

\* the running operation asks its host for a file
OpRead(c, fileName) ==
    /\ pc[c] = "op"
    /\ ~MicrotasksPending
    /\ ReadDtsFile(fileName)
    /\ UNCHANGED << hasFlat, hasOnFetch, onFetchCalls, versions, lastUpdateFilesSize, hasDtsHost, instances,
                    languageService, toClear, dtsVersion, runningApis, pc, gv, oldVersion,
                    opInst, result, err, hist >>
    /\ UNCHANGED versionLog

\* the operation's promise is fulfilled: result is assigned, and the next
\* getVersion() is called (or, without a dtsHost, the result is returned)
OpEnd(c) ==
    /\ pc[c] = "op"
    /\ ~MicrotasksPending
    /\ result' = [ result EXCEPT ![c] = [ inst |-> opInst[c], exec |-> hist[c].execs ] ]
    /\ IF ~hasDtsHost
       THEN /\ pc' = [ pc EXCEPT ![c] = "done" ]
            /\ UNCHANGED << gv, versionLog >>
       ELSE /\ pc' = [ pc EXCEPT ![c] = "newVersion" ]
            /\ gv' = [ gv EXCEPT ![c] = getVersionLoop(files, lastUpdateFilesSize, 0) ]
            /\ versionLog' = logReturn(versionLog, gv'[c], files)
    /\ UNCHANGED << hostVars, hasDtsHost, dtsFiles, dtsAwait, instances, languageService,
                    toClear, dtsVersion, runningApis, oldVersion, opInst, err, hist >>

\* the operation throws or rejects with e
OpThrow(c, e) ==
    /\ pc[c] = "op"
    /\ ~MicrotasksPending
    /\ runningApis' = IF hasDtsHost THEN finallyOnThrow(runningApis) ELSE runningApis
    /\ pc' = [ pc EXCEPT ![c] = "failed" ]
    /\ err' = [ err EXCEPT ![c] = e ]
    /\ hist' = [ hist EXCEPT ![c].decs = @ + (runningApis - runningApis'), ![c].thrown = e ]
    /\ UNCHANGED << hostVars, hasDtsHost, dtsFiles, dtsAwait, instances, languageService,
                    toClear, dtsVersion, gv, oldVersion, opInst, result >>
    /\ UNCHANGED versionLog

\* `newVersion = await getVersion()` resumes: either the loop body up to the
\* re-invocation of the operation, or the finally block, the disposal and
\* the return
GotNewVersion(c) ==
    /\ pc[c] = "newVersion" /\ gv[c].st = "ret"
    /\ LET newVersion == gv[c].v
       IN  /\ gv' = [ gv EXCEPT ![c] = NoGv ]
           /\ IF mustReexecute(newVersion, oldVersion[c])
              THEN /\ oldVersion' = [ oldVersion EXCEPT ![c] = newVersion ]
                   /\ IF mustRebuild(newVersion, dtsVersion)
                      THEN /\ dtsVersion' = newVersion
                           /\ toClear' = toClear \cup { superseded(languageService, Len(instances) + 1) }
                           /\ instances' = Append(instances, newInstance)
                           /\ languageService' = Len(instances) + 1
                      ELSE UNCHANGED << dtsVersion, toClear, instances, languageService >>
                   /\ pc' = [ pc EXCEPT ![c] = "op" ]
                   /\ opInst' = [ opInst EXCEPT ![c] = languageService' ]
                   /\ hist' = [ hist EXCEPT ![c].execs = @ + 1, ![c].lastRead = newVersion,
                                            ![c].readBefore = newVersion ]
                   /\ UNCHANGED runningApis
              ELSE /\ runningApis' = finallyOnReturn(runningApis)
                   /\ IF mustDispose(runningApis', toClear)
                      THEN /\ instances' = [ i \in DOMAIN instances |->
                                               IF i \in toClear
                                               THEN [ instances[i] EXCEPT !.disposals = Append(@, runningApis') ]
                                               ELSE instances[i] ]
                           /\ toClear' = {}
                      ELSE UNCHANGED << instances, toClear >>
                   /\ pc' = [ pc EXCEPT ![c] = "done" ]
                   /\ hist' = [ hist EXCEPT ![c].decs = @ + (runningApis - runningApis'),
                                            ![c].lastRead = newVersion,
                                            ![c].ended = Terminal ]
                   /\ UNCHANGED << oldVersion, dtsVersion, languageService, opInst >>
    /\ UNCHANGED << hostVars, hasDtsHost, dtsFiles, dtsAwait, result, err >>
    /\ UNCHANGED versionLog

\* ------------------------------------------------------------------------
\* The specification
\* ------------------------------------------------------------------------
InitWorker ==
    /\ files = Empty
    /\ fetchPc = Empty
    /\ flatResult = Empty
    /\ lastUpdateFilesSize = 0
    /\ flatCalls = Empty
    /\ fetchStarts = Empty
    /\ readCalls = Empty
    /\ requests = Empty
    /\ dtsFiles = Empty
    /\ dtsAwait = {}
    /\ instances = << [ seen |-> {}, disposals |-> <<>> ] >>
    /\ languageService = 1
    /\ toClear = {}
    /\ dtsVersion = 0
    /\ runningApis = 0
    /\ pc = [ c \in Calls |-> "idle" ]
    /\ gv = [ c \in Calls |-> NoGv ]
    /\ oldVersion = [ c \in Calls |-> 0 ]
    /\ opInst = [ c \in Calls |-> 0 ]
    /\ result = [ c \in Calls |-> NoResult ]
    /\ err = [ c \in Calls |-> "none" ]
    /\ hist = [ c \in Calls |-> NoHist ]
    /\ versionLog = NoLog
    /\ onFetchCalls = Empty

\* the proxy, with or without a dtsHost; the host with or without flat
Init ==
    /\ hasDtsHost \in BOOLEAN
    /\ hasFlat \in BOOLEAN
    /\ hasOnFetch = TRUE
    /\ versions = PinF
    /\ InitWorker

\* the host behind one proxied call, over more file names and pin maps
InitHost ==
    /\ hasDtsHost = TRUE
    /\ hasFlat \in BOOLEAN
    /\ hasOnFetch = TRUE
    /\ versions \in VersionPins
    /\ InitWorker

\* what the event loop, the network and the engine do for the calls cs once
\* they have been issued: continuations run, fetches and operations end
Settle(cs) ==
    \/ \E c \in cs : GetVersionResume(c)
    \/ \E c \in cs : GotOldVersion(c)
    \/ \E c \in cs : GetVersionRejected(c)
    \/ \E c \in cs : OpEnd(c)
    \/ \E c \in cs, e \in EngineErrors : OpThrow(c, e)
    \/ \E c \in cs : GotNewVersion(c)
    \/ \E f \in Universe : ReadDtsFileAsyncResume(f)
    \/ \E f \in Universe : AfterPackageJson(f)
    \/ \E f \in Universe : AfterIndexDts(f)
    \/ \E p \in Packages, l \in FlatListings : FlatSettle(p, l)
    \/ \E f \in Universe : AfterFlat(f)
    \/ \E f \in Universe, t \in Bodies : AfterFetchText(f, t)

\* the steps of calls cs whose engine asks for the file names ps
Step(cs, ps) ==
    \/ \E c \in cs : Start(c)
    \/ \E c \in cs, f \in ps : OpRead(c, f)
    \/ Settle(cs)

Next == Step(Calls, EnginePaths)

NextHost == Step(HostCalls, HostPaths)

NextInvalid == Step(HostCalls, InvalidPaths)

NextPins == Step(HostCalls, PinPaths)

Spec == Init /\ [][Next]_vars

SpecHost == InitHost /\ [][NextHost]_vars

\* the host behind one proxied call whose engine asks for files of
\* known-invalid packages
SpecInvalid == InitHost /\ [][NextInvalid]_vars

\* the host behind one proxied call whose engine asks for files of pinned and
\* unpinned packages
SpecPins == InitHost /\ [][NextPins]_vars

\* Spec with every started fetch settling, every running operation ending and
\* every ready continuation run; calls need not be issued and the engine need
\* not ask for files
SpecLive == Init /\ [][Next]_vars /\ WF_vars(Settle(Calls))

\* ------------------------------------------------------------------------
\* Properties
\* ------------------------------------------------------------------------
returned(c) == pc[c] = "done"

failed(c) == pc[c] = "failed"

\* the instance that computed the result call c returned
resultInstance(c) == instances[result[c].inst]

shimFiles == { f \in DOMAIN files : startsWith(Known[f].pkgName, AtTypes) }

\* C1: a call that returns a result never returns one computed against an
\* instance constructed before a declaration entry that was already terminal
\* when the call began.
C1_FreshAsOfStart ==
    \A c \in Calls : returned(c) => hist[c].began \subseteq resultInstance(c).seen

\* C2: when a call returns, the instance that computed its result was
\* constructed after every declaration entry that is terminal at that moment.
C2_FreshAsOfReturn ==
    \A c \in Calls : returned(c) => hist[c].ended \subseteq resultInstance(c).seen

\* C3: dispose() is called on an instance only while runningApis is zero, and
\* at most once on any instance.
C3_DisposalSafety ==
    \A i \in DOMAIN instances :
        /\ Len(instances[i].disposals) <= 1
        /\ \A k \in DOMAIN instances[i].disposals : instances[i].disposals[k] = 0

\* a superseded instance has been disposed after two calls ran concurrently
C3_Witness ==
    /\ \E i \in DOMAIN instances : instances[i].disposals = << 0 >>
    /\ \A c \in 1..2 : returned(c) /\ hist[c].execs >= 2

\* C4: however often an accepted path is read, also while an earlier read is
\* pending, exactly one fetchFile is started for it, and the worker's reader
\* ends with the value the cache entry settled to.
C4_SingleFetch ==
    /\ DOMAIN fetchStarts = DOMAIN files
    /\ DOMAIN readCalls = DOMAIN files
    /\ \A f \in DOMAIN files : fetchStarts[f] = 1
    /\ \A f \in DOMAIN dtsFiles :
          (Known[f].accepted /\ f \notin dtsAwait /\ files[f] # "Rejected")
             => dtsFiles[f] = files[f]

\* the manifest was read by the shim's fetch and by the engine, the second
\* read while the first was pending, and both readers have its text
C4_Witness ==
    /\ countOf(readCalls, OrigManifest) = 2
    /\ countOf(fetchStarts, OrigManifest) = 1
    /\ OrigManifest \in DOMAIN dtsFiles /\ OrigManifest \notin dtsAwait
    /\ truthy(dtsFiles[OrigManifest])
    /\ ShimIndex \in DOMAIN fetchPc /\ fetchPc[ShimIndex] \notin { "packageJson" }

\* C5: a malformed manifest met by the redundancy check counts as no
\* redundancy signal: no cache entry is ever rejected, getVersion never
\* throws and no proxied call fails because of a resolution.
C5_MalformedManifestIsNoSignal ==
    /\ \A f \in DOMAIN files : files[f] # "Rejected"
    /\ \A c \in Calls : gv[c].st # "thrown" /\ err[c] # "SyntaxError"

\* C6: when the engine's operation throws, runningApis is decremented exactly
\* once for that call, the call rejects with the error thrown, and nothing of
\* the call runs afterwards (the operation is not executed again).
C6_EngineFailure ==
    /\ [](\A c \in Calls :
            hist[c].thrown # "none" =>
               /\ failed(c)
               /\ err[c] = hist[c].thrown
               /\ hist[c].decs = hist[c].incs
               /\ hasDtsHost => hist[c].decs = 1)
    /\ [][\A c \in Calls :
            hist[c].thrown # "none" => (hist'[c] = hist[c] /\ pc'[c] = pc[c])]_vars

\* the operation threw in a re-execution, after the engine had been rebuilt
C6_Witness ==
    \E c \in Calls : hist[c].thrown # "none" /\ hist[c].execs = 2 /\ runningApis = 0

\* C7: whenever a call has finished, by returning or by throwing, and
\* runningApis is zero, toClear is empty and every superseded instance has
\* been disposed.
C7_DisposedAtZero ==
    (runningApis = 0 /\ \E c \in Calls : returned(c) \/ failed(c))
       => /\ toClear = {}
          /\ \A i \in DOMAIN instances : i # languageService => instances[i].disposals # <<>>

\* the state of a shim file and of its url when the manifest of the original
\* package declares types
redundant(f) ==
    /\ files[f] \in { "Pending", "undefined" }
    /\ fetchPc[f] = "end" => files[f] = "undefined"
    /\ Known[f].url[versions] \notin DOMAIN requests

manifestDeclaresTypes(f) ==
    /\ Known[f].manifest \in DOMAIN files
    /\ files[Known[f].manifest] = "Types"

\* C8 as stated: in every configuration, if the manifest of the original
\* package declares types, the shim's files resolve Absent and no byte fetch
\* is issued for them.
C8_RedundancyLaw ==
    \A f \in shimFiles : manifestDeclaresTypes(f) => redundant(f)

\* C8 amended: in every configuration that supplies a file listing (flat), if
\* the manifest of the original package declares types, the shim's files
\* resolve Absent and no byte fetch is issued for them.
C8_RedundancyLawWithFlat ==
    hasFlat => \A f \in shimFiles : manifestDeclaresTypes(f) => redundant(f)

\* the shim file resolved Absent on the strength of the manifest
C8_Witness ==
    /\ hasFlat
    /\ ShimIndex \in DOMAIN files /\ OrigManifest \in DOMAIN files
    /\ files[OrigManifest] = "Types"
    /\ files[ShimIndex] = "undefined" /\ fetchPc[ShimIndex] = "end"

\* C9: flat is invoked at most once per package name, and a listing that has
\* arrived is the one every later lookup finds.
C9_FlatOnce ==
    /\ [](/\ \A k \in DOMAIN flatCalls : flatCalls[k] = 1
          /\ \A k1, k2 \in DOMAIN flatCalls : k1[1] = k2[1] => k1 = k2
          /\ { k[1] : k \in DOMAIN flatCalls } = DOMAIN flatResult)
    /\ [][\A p \in DOMAIN flatResult :
            flatResult[p].settled => (p \in DOMAIN flatResult' /\ flatResult'[p] = flatResult[p])]_vars

\* two files of package f went through the listing lookup, after one
\* invocation of flat
C9_Witness ==
    /\ hasFlat
    /\ countOf(flatCalls, << <<"f">>, Known[OrigIndex].version[versions] >>) = 1
    /\ \A f \in { OrigManifest, OrigIndex } :
          f \in DOMAIN fetchPc /\ fetchPc[f] = "end" /\ truthy(files[f])

\* C10: when getVersion returns v, v is the number of entries of the cache
\* and none of them is pending (nor rejected).
C10_VersionAfterDrain ==
    \A c \in Calls :
        gv[c].st = "ret" =>
           /\ gv[c].v = size(files)
           /\ \A f \in DOMAIN files : files[f] \notin { "Pending", "Rejected" }

\* a getVersion that went through two drains, an entry having been registered
\* during the first, returns while another call is in getVersion as well
C10_Witness ==
    \E c, d \in Calls :
        /\ c # d
        /\ gv[c].st = "ret" /\ gv[c].rounds >= 2 /\ gv[c].v = 3
        /\ gv[d].st \in { "all", "ret" } /\ gv[d].rounds >= 1

\* some call is handed a version by a getVersion that returns in this step
returnsNow(c) == gv'[c].st = "ret" /\ gv[c].st # "ret"

\* C11: the versions getVersion returns never decrease from one return to the
\* next, and two returns give the same version only if the cache held the same
\* entries with the same values at both moments.
C11_VersionSignal ==
    /\ [](\A v \in DOMAIN versionLog.seen : Cardinality(versionLog.seen[v]) = 1)
    /\ [][\A c \in Calls :
            returnsNow(c) => \A v \in DOMAIN versionLog.seen : v <= gv'[c].v]_vars

\* getVersion has returned 0 and, more than once, 3
C11_Witness ==
    /\ DOMAIN versionLog.seen = { 0, 3 }
    /\ 3 \in versionLog.again

\* C12: a call that starts after another call has settled never reads a
\* version smaller than the last version that call read.
C12_Ordering ==
    \A c \in Calls : hist[c].lastRead # -1 => hist[c].lastRead >= hist[c].floor

\* the second call started after the first had settled with version 3 read
\* last, and has read a version itself
C12_Witness ==
    /\ pc[1] \in { "done", "failed" } /\ hist[1].lastRead = 3
    /\ hist[2].floor = 3 /\ hist[2].lastRead # -1

\* C13: under fair scheduling, with finitely many file names and every fetch
\* settling, every call that was issued eventually settles: from some moment
\* on no call is in its guarded section or executing (a call that has been
\* issued never becomes idle again, and one that has settled stays settled).
C13_Termination ==
    <>[](\A c \in Calls : pc[c] = "idle" \/ returned(c) \/ failed(c))

\* both calls went through the re-execution loop and have returned
C13_Witness ==
    \A c \in Calls : returned(c) /\ hist[c].execs >= 2 /\ hist[c].lastRead = 3

\* the declaration files whose fetch succeeded, and those that resolved Absent
fetchedDeclarations == { f \in DOMAIN files : endsWith(f, DotDts) /\ truthy(files[f]) }

absentDeclarations == { f \in DOMAIN files : endsWith(f, DotDts) /\ files[f] = "undefined" }

\* C14: when onFetch is supplied, it has been invoked exactly once, with the
\* path and the text, for every declaration file whose fetch succeeded, and
\* never for a file that resolved Absent.
C14_ObserverOncePerFetch ==
    hasOnFetch =>
       /\ \A f \in fetchedDeclarations : countOf(onFetchCalls, << f, files[f] >>) = 1
       /\ \A k \in DOMAIN onFetchCalls : k[1] \in fetchedDeclarations /\ k[2] = files[k[1]]

\* the state of a file that resolved Absent without any network access
withoutNetwork(f) ==
    /\ files[f] = "undefined" /\ fetchPc[f] = "end"
    /\ \A vs \in VersionPins : Known[f].url[vs] \notin DOMAIN requests
    /\ \A k \in DOMAIN flatCalls : k[1] # Known[f].pkgName

\* C15 as stated: in every configuration, a file of a known-invalid package
\* resolves Absent with neither a listing lookup nor a byte fetch issued.
C15_KnownInvalid ==
    \A f \in { InvalidScope, InvalidShim } \cap DOMAIN files : withoutNetwork(f)

\* C15 amended: in every configuration that supplies a file listing (flat), a
\* file of a known-invalid package resolves Absent with neither a listing
\* lookup nor a byte fetch issued.
C15_KnownInvalidWithFlat ==
    hasFlat => \A f \in { InvalidScope, InvalidShim } \cap DOMAIN files : withoutNetwork(f)

\* both known-invalid files were read and the worker has their value
C15_Witness ==
    /\ hasFlat
    /\ \A f \in { InvalidScope, InvalidShim } :
          f \in DOMAIN files /\ f \in DOMAIN dtsFiles /\ f \notin dtsAwait
    /\ \E c \in Calls : returned(c)

\* the url of a file name, from its package, the pin of that package and the
\* rest of the path
pinOf(pkgName) == { versions[i][2] : i \in { i \in 1..Len(versions) : versions[i][1] = pkgName } }

expectedUrl(f) ==
    LET pkgName == Known[f].pkgName
        rest == Known[f].relative
    IN  IF pinOf(pkgName) = {} THEN Cdn \o pkgName \o rest
        ELSE Cdn \o pkgName \o <<"@">> \o (CHOOSE v \in pinOf(pkgName) : TRUE) \o rest

\* C16: a byte fetch for a file of a pinned package asks for
\* cdn + pkg@version + rest, and one for a file of any other package, also
\* one whose name starts with a pinned name, asks for cdn + pkg + rest.
C16_VersionPinRewrite ==
    /\ \A f \in DOMAIN fetchPc : fetchPc[f] = "fetchText" => expectedUrl(f) \in DOMAIN requests
    /\ \A u \in DOMAIN requests : \E f \in DOMAIN files : u = expectedUrl(f)

\* with f pinned, files of f, of fx and of @types/f have been requested
C16_Witness ==
    /\ versions = PinF
    /\ { Cdn \o <<"f","@","1">> \o PackageJson,
         Cdn \o <<"f","x">> \o IndexDts,
         Cdn \o AtTypes \o <<"f">> \o IndexDts } \subseteq DOMAIN requests

\* call c goes through an iteration of its re-execution loop in this step:
\* the version it has just read differs from the one it read before
iterates(c) ==
    /\ pc[c] = "newVersion" /\ gv[c].st = "ret" /\ pc'[c] # pc[c]
    /\ gv[c].v # oldVersion[c]

\* in this step the current instance goes to toClear and a new one replaces it
rebuilt ==
    /\ Len(instances') = Len(instances) + 1
    /\ languageService' = Len(instances') /\ languageService' # languageService
    /\ toClear' = toClear \cup { languageService }

\* in this step the current instance stays what it is
kept == languageService' = languageService /\ instances' = instances /\ toClear' = toClear

\* C17 as stated: every iteration of the re-execution loop supersedes the
\* current instance and builds a new one before the operation runs again.
C17_RebuildEveryIteration ==
    [][\A c \in Calls :
         iterates(c) => rebuilt /\ pc'[c] = "op" /\ opInst'[c] = languageService']_vars

\* C17 amended: an iteration supersedes the current instance and builds a new
\* one if the version read differs from the version the current instance was
\* built for (dtsVersion); otherwise the current instance is kept; in both
\* cases the operation runs again, on the current instance.
C17_RebuildUnlessBuilt ==
    [][\A c \in Calls :
         iterates(c) =>
            /\ IF gv[c].v # dtsVersion THEN rebuilt ELSE kept
            /\ dtsVersion' = gv[c].v
            /\ pc'[c] = "op" /\ opInst'[c] = languageService']_vars

\* two calls went through an iteration for the same version, and the engine
\* was rebuilt once
C17_Witness ==
    /\ Len(instances) = 2
    /\ \A c \in 1..2 : hist[c].execs = 2 /\ hist[c].readBefore = dtsVersion

\* C18: the current instance is never in toClear nor disposed, and no
\* operation runs on an instance that has been disposed.
C18_CurrentNeverDisposed ==
    /\ languageService \notin toClear
    /\ instances[languageService].disposals = <<>>
    /\ \A c \in Calls : pc[c] = "op" => instances[opInst[c]].disposals = <<>>

\* an operation runs on the current instance after an earlier instance has
\* been disposed
C18_Witness ==
    /\ \E i \in DOMAIN instances : instances[i].disposals # <<>>
    /\ \E c \in Calls : pc[c] = "op" /\ opInst[c] = languageService /\ runningApis = 1

\* the calls that are inside the try block
guarded == { c \in Calls : hasDtsHost /\ pc[c] \in { "oldVersion", "op", "newVersion" } }

\* C19: runningApis is the number of calls that have entered and not yet left
\* the guarded section (never negative, zero when none is executing).
C19_InFlightCounter == runningApis = Cardinality(guarded)

\* one call has failed after both were in the guarded section, and the other
\* is still executing its operation
C19_Witness ==
    /\ hasDtsHost /\ runningApis = 1
    /\ \E c, d \in Calls : failed(c) /\ hist[c].execs = 2 /\ pc[d] = "op" /\ hist[d].execs = 2

\* C20: the result a call returns is that of its last execution, and the
\* version read before that execution equals the version read after it.
C20_ReturnsLastStableResult ==
    \A c \in Calls :
        returned(c) =>
           /\ result[c].exec = hist[c].execs
           /\ hasDtsHost => hist[c].lastRead # -1 /\ hist[c].readBefore = hist[c].lastRead

\* a call has returned the result of its second execution
C20_Witness ==
    \E c \in Calls : returned(c) /\ hist[c].execs = 2 /\ hist[c].lastRead = 1

====
